---- MODULE Spec2Model ----
(***************************************************************************)
(* Demand-paging core of PintOS-VM: supplemental page table, frame table   *)
(* with clock eviction, anonymous swap, file-backed mmap pages, lazy      *)
(* (uninit) pages and address-space duplication.                           *)
(*                                                                         *)
(* Every C function is an operator from a machine state S (a record of    *)
(* the program's data structures) to the machine state after the call;    *)
(* S.ret carries the return value (true is 1, false and NULL are 0) and   *)
(* S.ctl the control outcome:                                             *)
(*   "run"    the call returned,                                           *)
(*   "exit"   the current process called exit(-1) and never returned,     *)
(*   "kfault" the kernel dereferenced an invalid pointer, hit an ASSERT   *)
(*            or PANIC, or faulted on an unmapped user address,           *)
(*   "oob"    the call would need more objects than the model's bounds,   *)
(*   "wait"   the thread blocks in lock_acquire on a lock another holds.  *)
(* An action applies one entry point to the current state and commits.    *)
(***************************************************************************)
EXTENDS Integers, Sequences, FiniteSets, TLC

PGSIZE == 4096
USER_STACK == 1195900928
STACK_LIMIT == 1048576
\* First kernel address. The kernel's value is 0x8004000000; the model keeps
\* its order against the user addresses in a number the checker's integers hold.
KERN_BASE == 2147479552

\* ---- bounds of the model ----
NFrames == 2
NSlots == 2
MaxPages == 4
MaxHandles == 4

Procs == {1, 2}
\* The user pages of the model: three low pages and the page under USER_STACK.
StackPage == USER_STACK - PGSIZE
LowPages == {PGSIZE, 2 * PGSIZE, 3 * PGSIZE}
VPages == LowPages \cup {StackPage}
\* Physical pages of the user pool; the largest pool has one page more than
\* the pool the machine boots with by default.
Kvas == 1..(NFrames + 1)
SlotIds == 1..NSlots
PageIds == 1..MaxPages
HandleIds == 1..MaxHandles
Files == {1, 2}
Patterns == {1, 2}
Vals == {0} \cup Patterns
NoPage == 0

\* Length in bytes of each file of the file system (file 2 is shorter than a page).
FileLen(f) == IF f = 1 THEN 10000 ELSE 100
FileBlocks == {0, 1, 2}

VARIABLES
  spt,            \* [proc][va] -> page id : thread->spt.spt_hash, keyed by page->va
  pages,          \* [page id] -> struct page (type "none": not allocated)
  frames,         \* [kva] -> struct frame (inuse FALSE: physical page still in the pool)
  frame_table,    \* global list of frames, front first
  mem,            \* [kva] -> content of the physical page
  pml4,           \* [proc][va] -> page table entry
  swap_slot_list, \* free swap slots, front first
  slots,          \* [slot] -> slot->page_list
  disk,           \* [slot] -> content of the slot's sectors
  fdata,          \* [file][block] -> content of the file's pages
  handles,        \* [handle] -> struct file made by file_reopen / file_duplicate
  pstate,         \* [proc] -> "none" | "run" | "exited"
  kfault,         \* the kernel has faulted or panicked
  last,           \* the entry point that ran last, its arguments and its result
  swap_lock,      \* holder of swap_lock (0: nobody)
  filesys_lock,   \* holder of filesys_lock (0: nobody)
  thr             \* [thread] -> where the thread stands inside a page fault

vars == <<spt, pages, frames, frame_table, mem, pml4, swap_slot_list, slots,
          disk, fdata, handles, pstate, kfault, last, swap_lock,
          filesys_lock, thr>>

\* ---------------------------------------------------------------- helpers
pg_round_down(va) == va - (va % PGSIZE)
pg_ofs(va) == va % PGSIZE

Min(a, b) == IF a < b THEN a ELSE b
Max(a, b) == IF a > b THEN a ELSE b

\* Content of a page: hd stands for the bytes below the occupant's read_bytes
\* boundary, tl for the bytes above it.
Content(h, t) == [hd |-> h, tl |-> t]
Zeroed == Content(0, 0)
Contents == [hd : Vals, tl : Vals]

NoPTE == [present |-> FALSE, kva |-> 0, writable |-> FALSE,
          accessed |-> FALSE, dirty |-> FALSE]

NoFileInfo == [file |-> 0, ofs |-> 0, read_bytes |-> 0, zero_bytes |-> 0,
               file_length |-> 0]

NoList == [st |-> "unset", elems |-> <<>>]

FreePage == [type |-> "none", va |-> 0, writable |-> FALSE, frame |-> 0,
             pml4 |-> 0, utype |-> "none", init |-> "null", aux |-> NoFileInfo,
             slot |-> 0, file |-> NoFileInfo, file_list |-> NoList,
             inits |-> 0, convs |-> 0, wr |-> 0, trips |-> 0, maddr |-> 0,
             mcnt |-> 0]

NoFrame == [inuse |-> FALSE, page |-> NoPage, page_list |-> <<>>, cnt_page |-> 0]

\* A physical page that is not part of the user pool: palloc never hands it out.
Withheld == [NoFrame EXCEPT !.inuse = TRUE]

NoHandle == [file |-> 0, open |-> FALSE]

\* A thread outside the fault handler. Inside it, page is the descriptor it
\* claims, frame the frame vm_get_frame holds, out the page handed to swap_out
\* and oframe that page's frame as swap_out read it on entry.
NoThread == [pc |-> "idle", page |-> NoPage, frame |-> 0, out |-> NoPage,
             oframe |-> 0]

NoOp == [op |-> "init", p |-> 0, addr |-> 0, len |-> 0, off |-> 0, file |-> 0,
         ret |-> 0, had |-> 0, ev |-> <<>>, rsp |-> 0, write |-> FALSE,
         np |-> FALSE, pos |-> 0, lockerr |-> {}]

\* The machine state the operators work on.
Cur == [spt |-> spt, pages |-> pages, frames |-> frames,
        frame_table |-> frame_table, mem |-> mem, pml4 |-> pml4,
        swap_slot_list |-> swap_slot_list, slots |-> slots, disk |-> disk,
        fdata |-> fdata, handles |-> handles, pstate |-> pstate,
        lock |-> filesys_lock,
        ctl |-> "run", ret |-> 0, evicted |-> <<>>, lockerr |-> {}]

Halt(S) == [S EXCEPT !.ctl = "kfault"]
OutOfBounds(S) == [S EXCEPT !.ctl = "oob"]
Ret(S, v) == [S EXCEPT !.ret = v]

\* ------------------------------------------------ locks
\* S.lockerr collects the breaches of the lock discipline: the names of the
\* file calls made while nobody holds filesys_lock, lock_acquire by the
\* holder and lock_release by a thread that is not the holder.
lock_held_by_current_thread(S, cur) == S.lock = cur

lock_acquire(S, cur) ==
  IF S.ctl # "run" THEN S
  ELSE IF S.lock = cur THEN Halt([S EXCEPT !.lockerr = @ \cup {"lock_acquire"}])
  ELSE IF S.lock # 0 THEN [S EXCEPT !.ctl = "wait"]
  ELSE [S EXCEPT !.lock = cur]

lock_release(S, cur) ==
  IF S.ctl # "run" THEN S
  ELSE IF S.lock # cur THEN Halt([S EXCEPT !.lockerr = @ \cup {"lock_release"}])
  ELSE [S EXCEPT !.lock = 0]

\* if (!is_lock_held) lock_acquire (&filesys_lock);
filesys_enter(S, cur, is_lock_held) ==
  IF is_lock_held THEN S ELSE lock_acquire(S, cur)

\* if (!is_lock_held) lock_release (&filesys_lock);
filesys_leave(S, cur, is_lock_held) ==
  IF is_lock_held THEN S ELSE lock_release(S, cur)

\* A call into the file system.
FileCall(S, name) ==
  IF S.lock = 0 THEN [S EXCEPT !.lockerr = @ \cup {name}] ELSE S

\* ------------------------------------------------ hardware page table (MMU)
pml4_get_page(S, p, va) ==
  IF va \in VPages /\ S.pml4[p][va].present THEN S.pml4[p][va].kva ELSE 0

pml4_set_page(S, p, va, kva, rw) ==
  [S EXCEPT !.pml4[p][va] = [present |-> TRUE, kva |-> kva, writable |-> rw,
                             accessed |-> FALSE, dirty |-> FALSE]]

pml4_clear_page(S, p, va) == [S EXCEPT !.pml4[p][va] = NoPTE]

pml4_is_dirty(S, p, va) == va \in VPages /\ S.pml4[p][va].dirty

pml4_is_accessed(S, p, va) == va \in VPages /\ S.pml4[p][va].accessed

pml4_set_accessed(S, p, va, b) ==
  IF S.pml4[p][va].present THEN [S EXCEPT !.pml4[p][va].accessed = b] ELSE S

\* ------------------------------------------------ file abstraction
file_length(f) == FileLen(f)

\* Bytes a transfer of n bytes at offset ofs really moves: files do not grow.
Transfer(f, n, ofs) == Max(0, Min(n, FileLen(f) - ofs))

FreeHandles(S) == {h \in HandleIds : S.handles[h].file = 0}

\* file_reopen / file_duplicate: a new open handle on the same file; S.ret is the handle.
file_reopen(S, f) ==
  IF FreeHandles(S) = {} THEN OutOfBounds(S)
  ELSE LET h == CHOOSE x \in FreeHandles(S) : \A y \in FreeHandles(S) : x <= y
       IN [FileCall(S, "file_reopen") EXCEPT !.handles[h] = [file |-> f, open |-> TRUE],
                                             !.ret = h]

HandleOk(S, h) == h \in HandleIds /\ S.handles[h].open

file_close(S, h) ==
  IF h = 0 THEN FileCall(S, "file_close")
  ELSE IF ~HandleOk(S, h) THEN Halt(S)
  ELSE [FileCall(S, "file_close") EXCEPT !.handles[h].open = FALSE]

\* file_write_at(file, buffer, size, ofs): buffer content c.
file_write_at(S, h, c, n, ofs) ==
  IF ~HandleOk(S, h) THEN Halt(S)
  ELSE LET f == S.handles[h].file IN
       IF Transfer(f, n, ofs) > 0 /\ (ofs \div PGSIZE) \in FileBlocks
       THEN [FileCall(S, "file_write_at") EXCEPT !.fdata[f][ofs \div PGSIZE] = c.hd]
       ELSE FileCall(S, "file_write_at")

\* file_read_at(file, kva, size, ofs): fills the head of the frame; S.ret is the
\* number of bytes read.
file_read_at(S, h, kva, n, ofs) ==
  IF ~HandleOk(S, h) THEN Halt(S)
  ELSE LET f == S.handles[h].file
           got == Transfer(f, n, ofs) IN
       IF got > 0 /\ (ofs \div PGSIZE) \in FileBlocks
       THEN [FileCall(S, "file_read_at") EXCEPT
               !.mem[kva].hd = S.fdata[f][ofs \div PGSIZE], !.ret = got]
       ELSE [FileCall(S, "file_read_at") EXCEPT !.ret = got]

\* ------------------------------------------------ supplemental page table
spt_find_page(S, p, va) ==
  IF va \in VPages THEN S.spt[p][va] ELSE NoPage

FreePageIds(S) == {i \in PageIds : S.pages[i].type = "none"}

uninit_new(va, init, type, aux) ==
  [FreePage EXCEPT !.type = "uninit", !.va = va, !.frame = 0, !.init = init,
                   !.utype = type, !.aux = aux]

\* Fault injection: registration without the lookup for an existing entry.
vm_alloc_page_unchecked(S, cur, type, upage, writable, init, aux) ==
  IF S.ctl # "run" THEN S
  ELSE LET va == pg_round_down(upage) IN
    IF type \notin {"anon", "file"} THEN Ret(S, 0)
    ELSE IF va \notin VPages \/ FreePageIds(S) = {} THEN OutOfBounds(S)
    ELSE LET id == CHOOSE x \in FreePageIds(S) : \A y \in FreePageIds(S) : x <= y
             newpage == [uninit_new(va, init, type, aux) EXCEPT !.writable = writable]
         IN [S EXCEPT !.pages[id] = newpage, !.spt[cur][va] = id, !.ret = 1]

vm_alloc_page_with_initializer(S, cur, type, upage, writable, init, aux) ==
  IF S.ctl # "run" THEN S
  ELSE LET va == pg_round_down(upage) IN
    IF type \notin {"anon", "file"} THEN Ret(S, 0)
    ELSE IF spt_find_page(S, cur, va) = NoPage
    THEN IF va \notin VPages \/ FreePageIds(S) = {} THEN OutOfBounds(S)
         ELSE LET id == CHOOSE x \in FreePageIds(S) : \A y \in FreePageIds(S) : x <= y
                  newpage == [uninit_new(va, init, type, aux) EXCEPT !.writable = writable]
              IN [S EXCEPT !.pages[id] = newpage, !.spt[cur][va] = id, !.ret = 1]
    ELSE Ret(S, 0)


\* ------------------------------------------------ intrusive lists
\* A struct page has one out_elem: it is a member of at most one list at a time.
RECURSIVE SeqHas(_, _)
SeqHas(s, x) == IF s = <<>> THEN FALSE ELSE Head(s) = x \/ SeqHas(Tail(s), x)

InSomeList(S, id) ==
  \/ \E k \in Kvas : SeqHas(S.frames[k].page_list, id)
  \/ \E s \in SlotIds : SeqHas(S.slots[s], id)
  \/ \E i \in PageIds : S.pages[i].file_list.st = "live" /\ SeqHas(S.pages[i].file_list.elems, id)

RECURSIVE SeqRemove(_, _)
SeqRemove(s, x) ==
  IF s = <<>> THEN <<>>
  ELSE IF Head(s) = x THEN Tail(s) ELSE <<Head(s)>> \o SeqRemove(Tail(s), x)

\* list_push_back (&frame->page_list, &page->out_elem)
frame_list_push(S, k, id) ==
  IF InSomeList(S, id) THEN Halt(S)
  ELSE [S EXCEPT !.frames[k].page_list = Append(@, id)]

\* ------------------------------------------------ frame table and eviction
RECURSIVE victim_scan(_, _)
victim_scan(S, i) ==
  IF S.frame_table = <<>> THEN Halt(S)
  ELSE IF i > Len(S.frame_table) THEN Ret(S, Head(S.frame_table))
  ELSE LET k == S.frame_table[i]
           pg == S.frames[k].page
       IN IF pg = NoPage \/ S.pages[pg].pml4 = 0 THEN Halt(S)
          ELSE LET P == S.pages[pg] IN
               IF ~pml4_is_accessed(S, P.pml4, P.va) THEN Ret(S, k)
               ELSE victim_scan(pml4_set_accessed(S, P.pml4, P.va, FALSE), i + 1)

vm_get_victim(S) == victim_scan(S, 1)

vm_evict_frame(S) == vm_get_victim(S)

\* disk_write (swap_disk, sector, out_page->va + ...): the kernel reads the user
\* address out_page->va through the address space of the running process.
RECURSIVE anon_out_loop(_, _, _, _)
anon_out_loop(S, cur, k, slot) ==
  IF S.ctl # "run" THEN S
  ELSE IF S.frames[k].page_list = <<>> THEN Ret(S, 1)
  ELSE LET out == Head(S.frames[k].page_list)
           P == S.pages[out]
           src == pml4_get_page(S, cur, P.va)
       IN IF src = 0 \/ P.pml4 = 0 THEN Halt(S)
          ELSE LET S1 == [S EXCEPT !.frames[k].page_list = Tail(@),
                                   !.frames[k].cnt_page = @ - 1,
                                   !.slots[slot] = Append(@, out),
                                   !.pages[out].slot = slot,
                                   !.disk[slot] = S.mem[src],
                                   !.pml4[cur][P.va].accessed = TRUE]
               IN anon_out_loop(pml4_clear_page(S1, P.pml4, P.va), cur, k, slot)

\* The first statement of anon_swap_out:
\* anon_page->slot = list_pop_front (&swap_slot_list).
anon_swap_out_slot(S, pg) ==
  IF S.swap_slot_list = <<>> THEN Halt(S)
  ELSE [S EXCEPT !.swap_slot_list = Tail(@),
                 !.pages[pg].slot = Head(S.swap_slot_list)]

anon_swap_out(S, cur, pg) ==
  IF S.ctl # "run" THEN S
  ELSE IF S.swap_slot_list = <<>> THEN Halt(S)
  ELSE IF S.pages[pg].frame = 0 THEN Halt(S)
  ELSE anon_out_loop(anon_swap_out_slot(S, pg), cur, S.pages[pg].frame,
                     Head(S.swap_slot_list))

RECURSIVE file_out_loop(_, _, _)
file_out_loop(S, pg, k) ==
  IF S.ctl # "run" THEN S
  ELSE IF S.frames[k].page_list = <<>> THEN Ret(S, 1)
  ELSE LET out == Head(S.frames[k].page_list)
           O == S.pages[out]
       IN IF O.pml4 = 0 THEN Halt(S)
          ELSE LET S1 == IF pml4_is_dirty(S, O.pml4, O.va)
                         THEN IF O.type # "file" \/ O.frame = 0 THEN Halt(S)
                              ELSE file_write_at(S, O.file.file, S.mem[O.frame],
                                                 O.file.read_bytes, O.file.ofs)
                         ELSE S
                   S2 == [S1 EXCEPT !.frames[k].page_list = Tail(@),
                                    !.pages[pg].file_list.elems = Append(@, out)]
               IN IF S1.ctl # "run" THEN S1
                  ELSE file_out_loop(pml4_clear_page(S2, O.pml4, O.va), pg, k)

\* Fault injection: file_backed_swap_out that takes filesys_lock without
\* asking whether the thread holds it.
file_backed_swap_out_relock(S, cur, pg) ==
  IF S.ctl # "run" THEN S
  ELSE LET k == S.pages[pg].frame
           S1 == [S EXCEPT !.pages[pg].file_list = [st |-> "live", elems |-> <<>>]]
       IN IF k = 0 THEN Halt(S)
          ELSE lock_release(file_out_loop(lock_acquire(S1, cur), pg, k), cur)

file_backed_swap_out(S, cur, pg) ==
  IF S.ctl # "run" THEN S
  ELSE LET k == S.pages[pg].frame
           is_lock_held == lock_held_by_current_thread(S, cur)
           S1 == [S EXCEPT !.pages[pg].file_list = [st |-> "live", elems |-> <<>>]]
       IN IF k = 0 THEN Halt(S)
          ELSE filesys_leave(file_out_loop(filesys_enter(S1, cur, is_lock_held), pg, k),
                             cur, is_lock_held)

\* swap_out (page): page->operations->swap_out; uninit_ops.swap_out is NULL.
swap_out(S, cur, pg) ==
  IF S.ctl # "run" THEN S
  ELSE IF pg = NoPage THEN Halt(S)
  ELSE IF S.pages[pg].type = "anon" THEN anon_swap_out(S, cur, pg)
  ELSE IF S.pages[pg].type = "file" THEN file_backed_swap_out(S, cur, pg)
  ELSE Halt(S)

\* palloc_get_page (PAL_USER | PAL_ZERO): the lowest free page of the user pool.
FreeKvas(S) == {k \in Kvas : ~S.frames[k].inuse}

\* The end of vm_get_frame's eviction branch: the victim v goes to the back of
\* the frame table and frame->page = NULL.
vm_get_frame_retire(S2, v) ==
  IF S2.ctl # "run" THEN S2
  ELSE [S2 EXCEPT !.frame_table = Append(SeqRemove(@, v), v),
                  !.frames[v].page = NoPage,
                  !.evicted = Append(@, v),
                  !.ret = v]

vm_get_frame(S, cur) ==
  IF S.ctl # "run" THEN S
  ELSE IF FreeKvas(S) # {}
  THEN LET k == CHOOSE x \in FreeKvas(S) : \A y \in FreeKvas(S) : x <= y
       IN [S EXCEPT !.frames[k] = [inuse |-> TRUE, page |-> NoPage,
                                   page_list |-> <<>>, cnt_page |-> 1],
                    !.mem[k] = Zeroed,
                    !.frame_table = Append(@, k),
                    !.ret = k]
  ELSE LET Evict(S1) ==
             IF S1.ctl # "run" THEN S1
             ELSE vm_get_frame_retire(swap_out(S1, cur, S1.frames[S1.ret].page), S1.ret)
       IN Evict(vm_evict_frame(S))


\* ------------------------------------------------ anonymous pages
anon_initializer(S, cur, pg) ==
  IF S.ctl # "run" THEN S
  ELSE LET k == S.pages[pg].frame
           S1 == [S EXCEPT !.pages[pg].type = "anon",
                           !.pages[pg].pml4 = cur,
                           !.pages[pg].slot = 0,
                           !.pages[pg].convs = @ + 1]
       IN IF k = 0 THEN Halt(S) ELSE Ret(frame_list_push(S1, k, pg), 1)

\* disk_read (swap_disk, sector, in_page->va + ...): the kernel writes the user
\* address in_page->va through the address space of the running process.
RECURSIVE anon_in_loop(_, _, _, _, _)
anon_in_loop(S, cur, pg, slot, read) ==
  IF S.ctl # "run" THEN S
  ELSE IF S.slots[slot] = <<>>
  THEN IF SeqHas(S.swap_slot_list, slot) THEN Halt(S)
       ELSE [S EXCEPT !.swap_slot_list = Append(@, slot), !.ret = 1]
  ELSE LET in == Head(S.slots[slot])
           P == S.pages[in]
           k == S.pages[pg].frame
       IN IF P.pml4 = 0 \/ k = 0 THEN Halt(S)
          ELSE LET S1 == pml4_set_page([S EXCEPT !.slots[slot] = Tail(@)],
                                       P.pml4, P.va, k, P.writable)
                   dst == pml4_get_page(S1, cur, P.va)
                   S2 == IF read # 0 THEN S1
                         ELSE IF dst = 0 THEN Halt(S1)
                         ELSE [S1 EXCEPT !.mem[dst] = S1.disk[slot],
                                         !.disk[slot] = Zeroed,
                                         !.pml4[cur][P.va].accessed = TRUE,
                                         !.pml4[cur][P.va].dirty = TRUE]
                   S3 == [S2 EXCEPT !.pages[in].frame = k,
                                    !.pages[in].trips = 1,
                                    !.frames[k].cnt_page = @ + 1]
               IN IF S2.ctl # "run" THEN S2
                  ELSE anon_in_loop(frame_list_push(S3, k, in), cur, pg, slot, read + 1)

anon_swap_in(S, cur, pg, kva) ==
  IF S.ctl # "run" THEN S
  ELSE IF S.pages[pg].slot = 0 THEN Halt(S)
  ELSE anon_in_loop(S, cur, pg, S.pages[pg].slot, 0)

\* ------------------------------------------------ file-backed pages
file_backed_initializer(S, cur, pg) ==
  IF S.ctl # "run" THEN S
  ELSE LET k == S.pages[pg].frame
           S1 == [S EXCEPT !.pages[pg].type = "file",
                           !.pages[pg].file = S.pages[pg].aux,
                           !.pages[pg].pml4 = cur,
                           !.pages[pg].convs = @ + 1]
       IN IF k = 0 THEN Halt(S) ELSE Ret(frame_list_push(S1, k, pg), 1)

RECURSIVE file_in_loop(_, _, _)
file_in_loop(S, pg, k) ==
  IF S.ctl # "run" THEN S
  ELSE IF S.pages[pg].file_list.elems = <<>>
  THEN [S EXCEPT !.pages[pg].file_list = [st |-> "freed", elems |-> <<>>],
                 !.ret = 1]
  ELSE LET in == Head(S.pages[pg].file_list.elems)
           P == S.pages[in]
           S1 == [S EXCEPT !.pages[pg].file_list.elems = Tail(@)]
       IN IF P.pml4 = 0 THEN Halt(S)
          ELSE file_in_loop(pml4_set_page(frame_list_push(S1, k, in),
                                          P.pml4, P.va, k, P.writable), pg, k)

file_backed_swap_in(S, cur, pg, kva) ==
  IF S.ctl # "run" THEN S
  ELSE LET P == S.pages[pg]
           k == P.frame
           is_lock_held == lock_held_by_current_thread(S, cur)
           Restore(S1) ==
             IF S1.ctl # "run" THEN S1
             ELSE IF P.file_list.st # "live" THEN Halt(S1)
             ELSE file_in_loop(S1, pg, k)
           Read(S0) ==
             IF S0.ctl # "run" THEN S0
             ELSE Restore(filesys_leave(file_read_at(S0, P.file.file, k,
                                                     P.file.read_bytes, P.file.ofs),
                                        cur, is_lock_held))
       IN IF k = 0 THEN Halt(S) ELSE Read(filesys_enter(S, cur, is_lock_held))

\* lazy_load (page, aux): file_seek + file_read into the frame, then
\* memset (kva + bytes read, 0, zero_bytes).
lazy_load(S, cur, pg, aux) ==
  IF S.ctl # "run" THEN S
  ELSE LET k == S.pages[pg].frame
           is_lock_held == lock_held_by_current_thread(S, cur)
           Fill(S1) ==
             IF S1.ctl # "run" THEN S1
             ELSE [S1 EXCEPT !.mem[k].tl = IF aux.zero_bytes > 0 /\ S1.ret = aux.read_bytes
                                           THEN 0 ELSE @,
                             !.mem[k].hd = IF S1.ret = 0 /\ aux.read_bytes > 0
                                              /\ aux.zero_bytes >= aux.read_bytes
                                           THEN 0 ELSE @,
                             !.pages[pg].inits = @ + 1,
                             !.ret = 1]
           Read(S0) ==
             IF S0.ctl # "run" THEN S0
             ELSE Fill(filesys_leave(file_read_at(S0, aux.file, k, aux.read_bytes, aux.ofs),
                                     cur, is_lock_held))
       IN IF k = 0 THEN Halt(S) ELSE Read(filesys_enter(S, cur, is_lock_held))

\* lazy_load_segment of the program loader, for a segment with no file bytes:
\* the frame is zero-filled.
lazy_load_segment(S, cur, pg, aux) ==
  IF S.ctl # "run" THEN S
  ELSE LET k == S.pages[pg].frame
       IN IF k = 0 THEN Halt(S)
          ELSE [S EXCEPT !.mem[k] = Zeroed, !.pages[pg].inits = @ + 1, !.ret = 1]

\* ------------------------------------------------ uninit pages
uninit_initialize(S, cur, pg, kva) ==
  IF S.ctl # "run" THEN S
  ELSE LET init == S.pages[pg].init
           aux == S.pages[pg].aux
           S1 == IF S.pages[pg].utype = "anon" THEN anon_initializer(S, cur, pg)
                 ELSE file_backed_initializer(S, cur, pg)
       IN IF S1.ctl # "run" \/ S1.ret = 0 THEN S1
          ELSE IF init = "lazy_load" THEN lazy_load(S1, cur, pg, aux)
          ELSE IF init = "segment" THEN lazy_load_segment(S1, cur, pg, aux)
          ELSE Ret(S1, 1)

\* Fault injection: a claim that always goes back through the uninit path.
swap_in_reinit(S, cur, pg, kva) ==
  IF S.ctl # "run" THEN S ELSE uninit_initialize(S, cur, pg, kva)

\* swap_in (page, kva): page->operations->swap_in
swap_in(S, cur, pg, kva) ==
  IF S.ctl # "run" THEN S
  ELSE IF S.pages[pg].type = "uninit" THEN uninit_initialize(S, cur, pg, kva)
  ELSE IF S.pages[pg].type = "anon" THEN anon_swap_in(S, cur, pg, kva)
  ELSE IF S.pages[pg].type = "file" THEN file_backed_swap_in(S, cur, pg, kva)
  ELSE Halt(S)

\* ------------------------------------------------ claim
install_page(S, cur, upage, kpage, writable) ==
  IF pml4_get_page(S, cur, upage) = 0
  THEN Ret(pml4_set_page(S, cur, upage, kpage, writable), 1)
  ELSE Ret(S, 0)

\* vm_do_claim_page after vm_get_frame returned the frame S1.ret: the links
\* between frame and page, the mapping, then swap_in.
vm_do_claim_page_bind(S1, cur, pg) ==
  IF S1.ctl # "run" THEN S1
  ELSE IF pg = NoPage THEN Halt(S1)
  ELSE LET In(S3, k) == IF S3.ret = 0 THEN Halt(S3) ELSE swap_in(S3, cur, pg, k)
           Install(S2, k) ==
             IF S2.pages[pg].type = "uninit"
             THEN install_page(S2, cur, S2.pages[pg].va, k, S2.pages[pg].writable)
             ELSE Ret(S2, 1)
       IN In(Install([S1 EXCEPT !.frames[S1.ret].page = pg,
                                !.pages[pg].frame = S1.ret], S1.ret),
             S1.ret)

vm_do_claim_page(S, cur, pg) ==
  IF S.ctl # "run" THEN S
  ELSE vm_do_claim_page_bind(vm_get_frame(S, cur), cur, pg)

vm_claim_page(S, cur, va) ==
  IF S.ctl # "run" THEN S
  ELSE IF spt_find_page(S, cur, va) = NoPage THEN Halt(S)
  ELSE vm_do_claim_page(S, cur, spt_find_page(S, cur, va))


\* aux of a loader segment with no file bytes (a non-NULL struct).
SegAux == [file |-> 0, ofs |-> 0, read_bytes |-> 0, zero_bytes |-> PGSIZE,
           file_length |-> 0]


\* ------------------------------------------------ fault handler
Exit(S) == [S EXCEPT !.ctl = "exit"]

vm_stack_growth(S, cur, addr) ==
  LET S1 == vm_alloc_page_with_initializer(S, cur, "anon", pg_round_down(addr), TRUE,
                                           "null", NoFileInfo)
  IN vm_claim_page(S1, cur, pg_round_down(addr))

\* Fault injection: a fault on an address without a descriptor returns false
\* in place of ending the process.
vm_try_handle_fault_lenient(S, cur, user_rsp, addr, user, write, not_present) ==
  IF S.ctl # "run" THEN S
  ELSE IF not_present
  THEN IF \/ user_rsp - 8 = addr
          \/ (USER_STACK - STACK_LIMIT <= user_rsp /\ user_rsp < addr /\ addr < USER_STACK)
       THEN Ret(vm_stack_growth(S, cur, addr), 1)
       ELSE LET page == spt_find_page(S, cur, pg_round_down(addr))
            IN IF page = NoPage THEN Ret(S, 0)
               ELSE IF write /\ ~S.pages[page].writable THEN Exit(S)
               ELSE vm_do_claim_page(S, cur, page)
  ELSE IF write THEN Exit(S)
  ELSE vm_do_claim_page(S, cur, NoPage)

vm_try_handle_fault(S, cur, user_rsp, addr, user, write, not_present) ==
  IF S.ctl # "run" THEN S
  ELSE IF not_present
  THEN IF \/ user_rsp - 8 = addr
          \/ (USER_STACK - STACK_LIMIT <= user_rsp /\ user_rsp < addr /\ addr < USER_STACK)
       THEN Ret(vm_stack_growth(S, cur, addr), 1)
       ELSE LET page == spt_find_page(S, cur, pg_round_down(addr))
            IN IF page = NoPage \/ (write /\ ~S.pages[page].writable)
               THEN Exit(S)
               ELSE vm_do_claim_page(S, cur, page)
  ELSE IF write THEN Exit(S)
  ELSE vm_do_claim_page(S, cur, NoPage)

\* ------------------------------------------------ user-buffer validation
is_user_vaddr(a) == a < KERN_BASE

\* The write test of check_page on the descriptor of va.
check_page_writable(S, cur, va, write) ==
  IF spt_find_page(S, cur, va) = NoPage THEN Ret(S, 0)
  ELSE IF write /\ ~S.pages[spt_find_page(S, cur, va)].writable THEN Ret(S, 0)
  ELSE Ret(S, 1)

\* check_page after vm_try_handle_fault: false when the handler returned
\* false, else the second lookup and the write test.
check_page_found(S1, cur, va, write) ==
  IF S1.ctl # "run" THEN S1
  ELSE IF S1.ret = 0 THEN Ret(S1, 0)
  ELSE check_page_writable(S1, cur, va, write)

\* rsp is thread_current ()->rsp, which check_page hands to the fault handler.
check_page(S, cur, rsp, uaddr, write) ==
  IF uaddr = 0 \/ ~is_user_vaddr(uaddr) THEN Ret(S, 0)
  ELSE IF spt_find_page(S, cur, pg_round_down(uaddr)) # NoPage
  THEN check_page_writable(S, cur, pg_round_down(uaddr), write)
  ELSE check_page_found(vm_try_handle_fault(S, cur, rsp, pg_round_down(uaddr),
                                            TRUE, write, TRUE),
                        cur, pg_round_down(uaddr), write)

\* Bytes of the range that lie on the page of usr.
validate_chunk(usr, left) ==
  IF left < PGSIZE - pg_ofs(usr) THEN left ELSE PGSIZE - pg_ofs(usr)

RECURSIVE validate_loop(_, _, _, _, _, _)
\* One pass of the loop after check_page: exit (-1) on false, else advance.
validate_step(S1, cur, rsp, usr, left, write) ==
  IF S1.ctl # "run" THEN S1
  ELSE IF S1.ret = 0 THEN Exit(S1)
  ELSE validate_loop(S1, cur, rsp, usr + validate_chunk(usr, left),
                     left - validate_chunk(usr, left), write)

validate_loop(S, cur, rsp, usr, left, write) ==
  IF S.ctl # "run" THEN S
  ELSE IF left <= 0 THEN S
  ELSE validate_step(check_page(S, cur, rsp, usr, write), cur, rsp, usr, left, write)

validate_ptr(S, cur, rsp, uaddr, size, write) ==
  IF size = 0 THEN S ELSE validate_loop(S, cur, rsp, uaddr, size, write)

\* ------------------------------------------------ mmap / munmap
PageCount(length) ==
  IF length % PGSIZE # 0 THEN (length \div PGSIZE) + 1 ELSE length \div PGSIZE

RECURSIVE mmap_loop(_, _, _, _, _, _, _, _, _, _)
mmap_loop(S, cur, addr, length, writable, file, offset, i, cnt_page, length_) ==
  IF S.ctl # "run" THEN S
  ELSE IF i >= cnt_page THEN S
  ELSE LET S1 == file_reopen(S, file)
           rb == IF length_ >= PGSIZE THEN PGSIZE ELSE length_
           aux == [file_length |-> length, file |-> S1.ret,
                   ofs |-> offset + i * PGSIZE, read_bytes |-> rb,
                   zero_bytes |-> PGSIZE - rb]
           S2 == vm_alloc_page_with_initializer(S1, cur, "file", addr + i * PGSIZE,
                                                writable, "lazy_load", aux)
       IN mmap_loop(S2, cur, addr, length, writable, file, offset, i + 1, cnt_page,
                    IF length_ >= PGSIZE THEN length_ - PGSIZE ELSE length_)

do_mmap(S0, cur, addr, length, writable, file, offset) ==
  LET cnt_page == PageCount(length)
      is_lock_held == lock_held_by_current_thread(S0, cur)
      S == FileCall(S0, "file_length")
  IN
  IF file_length(file) < offset THEN Ret(S, 0)
  ELSE IF \E i \in 0..(cnt_page - 1) : spt_find_page(S, cur, addr + i * PGSIZE) # NoPage
  THEN Ret(S, 0)
  ELSE Ret(filesys_leave(mmap_loop(filesys_enter(S, cur, is_lock_held), cur, addr, length,
                                   writable, file, offset, 0, cnt_page, length),
                         cur, is_lock_held),
           addr)

\* page->file.* of a descriptor that is not file-backed reads the bytes of another
\* member of the union: garbage stands for the page count they give and
\* wild for whether the pointer read as page->file.file is a non-NULL wild pointer.
RECURSIVE munmap_loop(_, _, _, _, _, _)
munmap_loop(S, cur, addr, i, cnt_page, wild) ==
  IF S.ctl # "run" THEN S
  ELSE IF i >= cnt_page THEN S
  ELSE LET pg == spt_find_page(S, cur, addr + i * PGSIZE) IN
       IF pg = NoPage THEN Halt(S)
       ELSE LET P == S.pages[pg]
                isfile == P.type = "file"
                S1 == IF pml4_is_dirty(S, cur, P.va)
                      THEN IF ~isfile THEN Halt(S)
                           ELSE file_write_at(S, P.file.file,
                                              S.mem[pml4_get_page(S, cur, P.va)],
                                              P.file.read_bytes, P.file.ofs)
                      ELSE S
                S2 == IF P.frame = 0 THEN Halt(S1)
                      ELSE [S1 EXCEPT !.frames[P.frame].cnt_page = @ - 1]
                S3 == IF isfile THEN file_close(S2, P.file.file)
                      ELSE IF wild THEN Halt(S2) ELSE S2
                S4 == pml4_clear_page([S3 EXCEPT !.spt[cur][P.va] = NoPage], cur, P.va)
            IN IF S1.ctl # "run" THEN S1
               ELSE IF S2.ctl # "run" THEN S2
               ELSE IF S3.ctl # "run" THEN S3
               ELSE munmap_loop(S4, cur, addr, i + 1, cnt_page, wild)

\* Fault injection: do_munmap without the early return for a missing descriptor.
do_munmap_unchecked(S, cur, addr, garbage, wild) ==
  IF pg_ofs(addr) # 0 THEN S
  ELSE IF spt_find_page(S, cur, addr) = NoPage THEN Halt(S)
  ELSE munmap_loop(S, cur, addr, 0,
                   IF S.pages[spt_find_page(S, cur, addr)].type = "file"
                   THEN PageCount(S.pages[spt_find_page(S, cur, addr)].file.file_length)
                   ELSE garbage, wild)

do_munmap(S, cur, addr, garbage, wild) ==
  IF pg_ofs(addr) # 0 THEN S
  ELSE LET page == spt_find_page(S, cur, addr) IN
       IF page = NoPage THEN S
       ELSE LET cnt_page == IF S.pages[page].type = "file"
                            THEN PageCount(S.pages[page].file.file_length)
                            ELSE garbage
                is_lock_held == lock_held_by_current_thread(S, cur)
            IN filesys_leave(munmap_loop(filesys_enter(S, cur, is_lock_held), cur, addr, 0,
                                         cnt_page, wild),
                             cur, is_lock_held)


\* ------------------------------------------------ address-space duplication
file_duplicate(S, h) ==
  IF ~HandleOk(S, h) THEN Halt(S) ELSE file_reopen(S, S.handles[h].file)

\* case VM_UNINIT: aux = malloc; memcpy (aux, page->uninit.aux, ...)
copy_uninit(S, cur, pg) ==
  LET P == S.pages[pg] IN
  IF P.aux = NoFileInfo THEN Halt(S)
  ELSE vm_alloc_page_with_initializer(S, cur, P.utype, P.va, P.writable, P.init, P.aux)

\* Fault injection: the child's anonymous page is bound to the parent's frame.
copy_anon_shared(S, cur, pg) ==
  LET P == S.pages[pg]
      S1 == vm_alloc_page_with_initializer(S, cur, "anon", P.va, P.writable,
                                           "null", NoFileInfo)
      newpage == spt_find_page(S1, cur, P.va)
  IN IF S1.ctl # "run" THEN S1
     ELSE IF newpage = NoPage \/ P.frame = 0 THEN Halt(S1)
     ELSE pml4_set_page([S1 EXCEPT !.pages[newpage].type = "anon",
                                   !.pages[newpage].frame = P.frame,
                                   !.pages[newpage].pml4 = cur,
                                   !.pages[newpage].convs = 1],
                        cur, P.va, P.frame, P.writable)

\* case VM_ANON
copy_anon(S, cur, pg) ==
  LET P == S.pages[pg]
      Copy(S2) ==
        LET newpage == spt_find_page(S2, cur, P.va) IN
        IF S2.ctl # "run" THEN S2
        ELSE IF newpage = NoPage THEN Halt(S2)
        ELSE IF S2.pages[newpage].frame = 0 \/ S2.pages[pg].frame = 0 THEN Halt(S2)
        ELSE [S2 EXCEPT !.mem[S2.pages[newpage].frame] = S2.mem[S2.pages[pg].frame]]
  IN Copy(vm_claim_page(vm_alloc_page_with_initializer(S, cur, "anon", P.va, P.writable,
                                                       "null", NoFileInfo),
                        cur, P.va))

\* case VM_FILE: newpage = malloc (sizeof (struct page)); only the fields the
\* code assigns are set.
copy_file(S, cur, pg) ==
  LET P == S.pages[pg] IN
  IF FreePageIds(S) = {} THEN OutOfBounds(S)
  ELSE IF P.frame = 0 THEN Halt(S)
  ELSE LET id == CHOOSE x \in FreePageIds(S) : \A y \in FreePageIds(S) : x <= y
           S1 == file_duplicate(S, P.file.file)
           newpage == [FreePage EXCEPT !.type = "file", !.va = P.va,
                                       !.writable = P.writable, !.frame = P.frame,
                                       !.file = [P.file EXCEPT !.file = S1.ret]]
       IN IF S1.ctl # "run" THEN S1
          ELSE pml4_set_page([S1 EXCEPT !.pages[id] = newpage,
                                        !.spt[cur][P.va] = id,
                                        !.frames[P.frame].cnt_page = @ + 1],
                             cur, P.va, P.frame, P.writable)

copy_entry(S, cur, pg) ==
  IF S.pages[pg].type = "uninit" THEN copy_uninit(S, cur, pg)
  ELSE IF S.pages[pg].type = "anon" THEN copy_anon(S, cur, pg)
  ELSE IF S.pages[pg].type = "file" THEN copy_file(S, cur, pg)
  ELSE Halt(S)

\* order: the order in which the hash iterator yields the source entries.
RECURSIVE copy_loop(_, _, _, _)
copy_loop(S, cur, src, order) ==
  IF S.ctl # "run" THEN S
  ELSE IF order = <<>> THEN Ret(S, 1)
  ELSE LET pg == S.spt[src][Head(order)] IN
       IF pg = NoPage THEN copy_loop(S, cur, src, Tail(order))
       ELSE copy_loop(copy_entry(S, cur, pg), cur, src, Tail(order))

supplemental_page_table_copy(S, cur, src, order) ==
  filesys_leave(copy_loop(filesys_enter(S, cur, lock_held_by_current_thread(S, cur)),
                          cur, src, order),
                cur, lock_held_by_current_thread(S, cur))

\* ------------------------------------------------ teardown
\* uninit_destroy: nothing is released.
uninit_destroy(S, cur, pg) == S

\* anon_destroy: page->frame->cnt_page -= 1 and nothing else.
anon_destroy(S, cur, pg) ==
  IF S.pages[pg].frame = 0 THEN Halt(S)
  ELSE [S EXCEPT !.frames[S.pages[pg].frame].cnt_page = @ - 1]

file_backed_destroy(S, cur, pg) ==
  LET P == S.pages[pg]
      Unmap(S3) ==
        IF S3.ctl # "run" THEN S3
        ELSE IF S3.frames[P.frame].cnt_page > 0 THEN pml4_clear_page(S3, cur, P.va)
        ELSE S3
      is_lock_held == lock_held_by_current_thread(S, cur)
      Close(S2) ==
        IF S2.ctl # "run" THEN S2
        ELSE Unmap(filesys_leave(file_close(S2, P.file.file), cur, is_lock_held))
      Flush(S1) ==
        IF pml4_is_dirty(S1, cur, P.va)
        THEN Close(file_write_at(S1, P.file.file, S1.mem[P.frame], P.file.read_bytes,
                                 P.file.ofs))
        ELSE Close(S1)
  IN IF P.frame = 0 THEN Halt(S)
     ELSE Flush(filesys_enter([S EXCEPT !.frames[P.frame].cnt_page = @ - 1],
                              cur, is_lock_held))

\* destroy (page): page->operations->destroy
destroy(S, cur, pg) ==
  IF S.pages[pg].type = "uninit" THEN uninit_destroy(S, cur, pg)
  ELSE IF S.pages[pg].type = "anon" THEN anon_destroy(S, cur, pg)
  ELSE IF S.pages[pg].type = "file" THEN file_backed_destroy(S, cur, pg)
  ELSE Halt(S)

\* vm_dealloc_page: destroy (page); free (page).
vm_dealloc_page(S, cur, pg) ==
  LET Free(S1) == IF S1.ctl # "run" THEN S1 ELSE [S1 EXCEPT !.pages[pg] = FreePage]
  IN Free(destroy(S, cur, pg))

\* hash_clear (&spt->spt_hash, clear_page_hash): order is the order in which the
\* buckets yield the entries.
RECURSIVE kill_loop(_, _, _)
kill_loop(S, cur, order) ==
  IF S.ctl # "run" THEN S
  ELSE IF order = <<>> THEN S
  ELSE IF S.spt[cur][Head(order)] = NoPage THEN kill_loop(S, cur, Tail(order))
  ELSE kill_loop(vm_dealloc_page([S EXCEPT !.spt[cur][Head(order)] = NoPage], cur,
                                 S.spt[cur][Head(order)]),
                 cur, Tail(order))

supplemental_page_table_kill(S, cur, order) == kill_loop(S, cur, order)

\* ------------------------------------------------ actions
Orders == {<<PGSIZE, 2 * PGSIZE, 3 * PGSIZE, StackPage>>,
           <<StackPage, 3 * PGSIZE, 2 * PGSIZE, PGSIZE>>}

\* Record of an entry point: had is the descriptor spt_find_page gave for addr
\* before the call, ev the frames the call evicted.
Rec(op, p, addr, len, off, file) ==
  [op |-> op, p |-> p, addr |-> addr, len |-> len, off |-> off, file |-> file,
   ret |-> 0, had |-> IF p \in Procs /\ addr \in VPages THEN spt[p][addr] ELSE NoPage,
   ev |-> <<>>, rsp |-> 0, write |-> FALSE, np |-> FALSE, pos |-> 0,
   lockerr |-> {}]

Other == Rec("other", 0, 0, 0, 0, 0)

RetCode(S) ==
  IF S.ctl = "kfault" THEN -1
  ELSE IF S.ctl = "exit" THEN -2
  ELSE S.ret

\* The state after the entry point. A kernel fault halts the machine where it
\* was; exit(-1) ends the process.
CommitMachine(S, cur, rec) ==
  /\ S.ctl \notin {"oob", "wait"}
  /\ last' = IF rec.op = "other"
             THEN [rec EXCEPT !.ev = S.evicted, !.lockerr = S.lockerr]
             ELSE [rec EXCEPT !.ret = RetCode(S), !.ev = S.evicted,
                              !.lockerr = S.lockerr]
  /\ filesys_lock' = S.lock
  /\ kfault' = (S.ctl = "kfault")
  /\ spt' = S.spt
  /\ pages' = S.pages
  /\ frames' = S.frames
  /\ frame_table' = S.frame_table
  /\ mem' = S.mem
  /\ pml4' = S.pml4
  /\ swap_slot_list' = S.swap_slot_list
  /\ slots' = S.slots
  /\ disk' = S.disk
  /\ fdata' = S.fdata
  /\ handles' = S.handles
  /\ pstate' = IF S.ctl = "exit" THEN [S.pstate EXCEPT ![cur] = "exited"]
               ELSE S.pstate

\* An entry point that runs from its call to its return.
Commit(S, cur, rec) ==
  /\ CommitMachine(S, cur, rec)
  /\ UNCHANGED <<swap_lock, thr>>

\* A step of thread cur inside the fault handler, which leaves it at T. No
\* statement of the handler takes or releases swap_lock.
CommitStep(S, cur, T) ==
  /\ CommitMachine(S, cur, Rec("other", 0, 0, 0, 0, 0))
  /\ thr' = [thr EXCEPT ![cur] = T]
  /\ UNCHANGED swap_lock

\* Process p runs in user mode, between entry points.
Running(p) == ~kfault /\ pstate[p] = "run" /\ thr[p].pc = "idle"


\* The program loader registers a lazily loaded anonymous page.
AllocPage(p, va, writable) ==
  /\ Running(p)
  /\ Commit(vm_alloc_page_with_initializer(Cur, p, "anon", va, writable, "segment", SegAux),
            p, Other)

\* A direct call of vm_alloc_page_with_initializer at any address of a page,
\* with its result recorded.
VmAlloc(p, upage, writable) ==
  /\ Running(p)
  /\ Commit(vm_alloc_page_with_initializer(Cur, p, "anon", upage, writable, "segment",
                                            SegAux),
            p, [Rec("alloc", p, upage, 0, 0, 0) EXCEPT
                  !.had = IF pg_round_down(upage) \in VPages
                          THEN spt[p][pg_round_down(upage)] ELSE NoPage])

\* mmap: the descriptors the call registers remember the call (maddr, mcnt).
Mmap(p, addr, length, writable, file, offset) ==
  /\ Running(p)
  /\ LET S == do_mmap(Cur, p, addr, length, writable, file, offset)
         marked == [i \in PageIds |->
                      IF pages[i].type = "none" /\ S.pages[i].type # "none"
                      THEN [S.pages[i] EXCEPT !.maddr = addr, !.mcnt = PageCount(length)]
                      ELSE S.pages[i]]
     IN Commit([S EXCEPT !.pages = marked], p, Rec("mmap", p, addr, length, offset, file))

Munmap(p, addr) ==
  /\ Running(p)
  /\ \E garbage \in 0..2, wild \in BOOLEAN :
       Commit(do_munmap(Cur, p, addr, garbage, wild), p, Rec("munmap", p, addr, 0, 0, 0))

\* A user access to addr that the MMU refuses: the page is not present, or it is
\* present read-only and the access is a write.
PageFault(p, addr, write) ==
  /\ Running(p)
  /\ LET pte == pml4[p][pg_round_down(addr)] IN
     /\ ~pte.present \/ (write /\ ~pte.writable)
     /\ Commit(vm_try_handle_fault(Cur, p, USER_STACK, addr, TRUE, write, ~pte.present),
               p, Other)

\* A user-mode access to addr that the MMU refuses, with the stack pointer at
\* rsp. not_present is the P bit of the error code: a page of the model is not
\* present when its entry is not, a kernel page may be present or not (the
\* access is refused either way), any other user address is not mapped.
Fault(p, rsp, addr, write, not_present) ==
  /\ Running(p)
  /\ LET va == pg_round_down(addr) IN
     /\ IF va \in VPages
        THEN /\ not_present = ~pml4[p][va].present
             /\ not_present \/ (write /\ ~pml4[p][va].writable)
        ELSE addr >= KERN_BASE \/ not_present
     /\ Commit(vm_try_handle_fault(Cur, p, rsp, addr, TRUE, write, not_present), p,
               [Rec("fault", p, addr, 0, 0, 0) EXCEPT
                  !.rsp = rsp, !.write = write, !.np = not_present,
                  !.had = IF va \in VPages THEN spt[p][va] ELSE NoPage])

\* A system call validates the user buffer [uaddr, uaddr + size) with the saved
\* stack pointer at rsp; ret is 1 when validate_ptr returned to its caller.
Validate(p, rsp, uaddr, size, write) ==
  /\ Running(p)
  /\ Commit(Ret(validate_ptr(Cur, p, rsp, uaddr, size, write), 1), p,
            [Rec("validate", p, uaddr, size, 0, 0) EXCEPT
               !.rsp = rsp, !.write = write])

UserRead(p, va) ==
  /\ Running(p)
  /\ pml4[p][va].present
  /\ Commit([Cur EXCEPT !.pml4[p][va].accessed = TRUE], p, Other)

\* A user store of the process's pattern through a present writable mapping.
UserWrite(p, va) ==
  /\ Running(p)
  /\ pml4[p][va].present /\ pml4[p][va].writable
  /\ LET k == pml4[p][va].kva
         v == p
         S1 == [Cur EXCEPT !.pml4[p][va].accessed = TRUE, !.pml4[p][va].dirty = TRUE,
                           !.mem[k] = Content(v, v)]
         S2 == IF spt[p][va] = NoPage THEN S1
               ELSE [S1 EXCEPT !.pages[spt[p][va]].wr = v, !.pages[spt[p][va]].trips = 0]
     IN Commit(S2, p, Other)

\* fork: the child runs supplemental_page_table_copy (&child->spt, &parent->spt).
Fork(parent, child, order) ==
  /\ Running(parent)
  /\ pstate[child] = "none"
  /\ Commit(supplemental_page_table_copy([Cur EXCEPT !.pstate[child] = "run"],
                                         child, parent, order),
            child, Rec("fork", child, 0, 0, 0, 0))

\* Position of x in the sequence s, 0 when it is not a member.
RECURSIVE IndexOf(_, _)
IndexOf(s, x) ==
  IF s = <<>> THEN 0
  ELSE IF Head(s) = x THEN 1
  ELSE IF IndexOf(Tail(s), x) = 0 THEN 0 ELSE 1 + IndexOf(Tail(s), x)

\* A read access to a page that is not present; pos is the position the victim
\* of vm_get_victim had in the frame table when the fault needed an eviction.
SweepFault(p, addr) ==
  /\ Running(p)
  /\ ~pml4[p][addr].present
  /\ LET Done(S) ==
           Commit(S, p, [Rec("sweep", p, addr, 0, 0, 0) EXCEPT
                           !.pos = IF S.evicted = <<>> THEN 0
                                   ELSE IndexOf(frame_table, Head(S.evicted))])
     IN Done(vm_try_handle_fault(Cur, p, USER_STACK, addr, TRUE, FALSE, TRUE))

\* Process exit: the exiting thread runs supplemental_page_table_kill on its own
\* table and does not run again.
Kill(p, order) ==
  /\ Running(p)
  /\ Commit(supplemental_page_table_kill([Cur EXCEPT !.pstate[p] = "exited"], p, order),
            p, Rec("kill", p, 0, 0, 0, 0))

\* The system call layer takes filesys_lock before it calls into the file
\* system or the VM, and releases it afterwards.
SyscallLock(p) ==
  /\ Running(p)
  /\ filesys_lock = 0
  /\ Commit(lock_acquire(Cur, p), p, Rec("lock", p, 0, 0, 0, 0))

SyscallUnlock(p) ==
  /\ Running(p)
  /\ filesys_lock = p
  /\ Commit(lock_release(Cur, p), p, Rec("unlock", p, 0, 0, 0, 0))

\* A page fault of thread t on va, one action per stretch of the handler that
\* runs without giving up the CPU: the kernel is preemptible and disk_write
\* blocks, so another thread may run between any two of them.
\* vm_try_handle_fault up to the palloc_get_page of vm_get_frame.
FaultEnter(t, va) ==
  /\ Running(t)
  /\ spt[t][va] # NoPage /\ ~pml4[t][va].present
  /\ IF FreeKvas(Cur) # {}
     THEN LET Got(S) == CommitStep(S, t, [NoThread EXCEPT !.pc = "got",
                                                          !.page = spt[t][va],
                                                          !.frame = S.ret])
          IN Got(vm_get_frame(Cur, t))
     ELSE CommitStep(Cur, t, [NoThread EXCEPT !.pc = "evict", !.page = spt[t][va]])

\* frame = vm_evict_frame ()
FaultVictim(t) ==
  /\ ~kfault /\ pstate[t] = "run" /\ thr[t].pc = "evict"
  /\ LET Chosen(S) == CommitStep(S, t, [thr[t] EXCEPT !.pc = "victim", !.frame = S.ret])
     IN Chosen(vm_evict_frame(Cur))

\* swap_out (frame->page) up to the list_pop_front of anon_swap_out; the
\* swap-out of a page that is not anonymous runs to its end.
FaultSlot(t) ==
  /\ ~kfault /\ pstate[t] = "run" /\ thr[t].pc = "victim"
  /\ LET out == frames[thr[t].frame].page IN
     IF out # NoPage /\ pages[out].type = "anon"
     THEN CommitStep(anon_swap_out_slot(Cur, out), t,
                     [thr[t] EXCEPT !.pc = "slot", !.out = out,
                                    !.oframe = pages[out].frame])
     ELSE CommitStep(swap_out(Cur, t, out), t, [thr[t] EXCEPT !.pc = "stored"])

\* The loop of anon_swap_out, which reads anon_page->slot again.
FaultStore(t) ==
  /\ ~kfault /\ pstate[t] = "run" /\ thr[t].pc = "slot"
  /\ CommitStep(IF thr[t].oframe = 0 \/ pages[thr[t].out].slot \notin SlotIds
                THEN Halt(Cur)
                ELSE anon_out_loop(Cur, t, thr[t].oframe, pages[thr[t].out].slot),
                t, [thr[t] EXCEPT !.pc = "stored"])

\* The rest of vm_get_frame's eviction branch.
FaultRetire(t) ==
  /\ ~kfault /\ pstate[t] = "run" /\ thr[t].pc = "stored"
  /\ CommitStep(vm_get_frame_retire(Cur, thr[t].frame), t, [thr[t] EXCEPT !.pc = "got"])

\* vm_do_claim_page after vm_get_frame, to the return of the handler.
FaultClaim(t) ==
  /\ ~kfault /\ pstate[t] = "run" /\ thr[t].pc = "got"
  /\ CommitStep(vm_do_claim_page_bind(Ret(Cur, thr[t].frame), t, thr[t].page), t, NoThread)

\* The state after vm_init with a user pool of pool pages and the processes
\* of running started.
BootProcs(pool, running) ==
  /\ spt = [p \in Procs |-> [va \in VPages |-> NoPage]]
  /\ pages = [i \in PageIds |-> FreePage]
  /\ frames = [k \in Kvas |-> IF k <= pool THEN NoFrame ELSE Withheld]
  /\ frame_table = <<>>
  /\ mem = [k \in Kvas |-> Zeroed]
  /\ pml4 = [p \in Procs |-> [va \in VPages |-> NoPTE]]
  /\ swap_slot_list = [i \in 1..NSlots |-> i]
  /\ slots = [s \in SlotIds |-> <<>>]
  /\ disk = [s \in SlotIds |-> Zeroed]
  /\ fdata = [f \in Files |-> [b \in FileBlocks |-> 0]]
  /\ handles = [h \in HandleIds |-> NoHandle]
  /\ pstate = [p \in Procs |-> IF p \in running THEN "run" ELSE "none"]
  /\ kfault = FALSE
  /\ last = NoOp
  /\ swap_lock = 0
  /\ filesys_lock = 0
  /\ thr = [p \in Procs |-> NoThread]

\* One process started.
Boot(pool) == BootProcs(pool, {1})

Init == Boot(NFrames)

\* The same machine with one more page in the user pool.
InitLarge == Boot(NFrames + 1)

\* ------------------------------------------------ specifications
\* Anonymous memory of a parent and its forked child under memory pressure.
AnonAddrs == {PGSIZE, 3 * PGSIZE}

NextAnon ==
  \/ \E p \in Procs, va \in AnonAddrs : AllocPage(p, va, TRUE)
  \/ \E p \in Procs, a \in LowPages, w \in BOOLEAN : PageFault(p, a, w)
  \/ \E p \in Procs, va \in LowPages : UserWrite(p, va)
  \/ \E o \in Orders : Fork(1, 2, o)

SpecAnon == Init /\ [][NextAnon]_vars

\* Two processes with anonymous pages whose page faults interleave.
NextRace ==
  \/ \E t \in Procs, a \in {PGSIZE, 2 * PGSIZE} : AllocPage(t, a, TRUE)
  \/ \E t \in Procs, a \in {PGSIZE, 2 * PGSIZE} : FaultEnter(t, a)
  \/ \E t \in Procs : FaultVictim(t)
  \/ \E t \in Procs : FaultSlot(t)
  \/ \E t \in Procs : FaultStore(t)
  \/ \E t \in Procs : FaultRetire(t)
  \/ \E t \in Procs : FaultClaim(t)
  \/ \E t \in Procs : UserWrite(t, PGSIZE)

\* Both programs are started side by side.
SpecRace == BootProcs(NFrames, Procs) /\ [][NextRace]_vars

\* A file mapping and an anonymous page, entered with and without filesys_lock
\* held: mmap, munmap, faults, fork under memory pressure and exit.
NextLock ==
  \/ SyscallLock(1)
  \/ SyscallUnlock(1)
  \/ Mmap(1, 2 * PGSIZE, PGSIZE, TRUE, 1, 0)
  \/ Munmap(1, 2 * PGSIZE)
  \/ AllocPage(1, PGSIZE, TRUE)
  \/ \E p \in Procs, a \in {PGSIZE, 2 * PGSIZE} : PageFault(p, a, FALSE)
  \/ UserWrite(1, 2 * PGSIZE)
  \/ \E o \in Orders : Fork(1, 2, o)
  \/ \E o \in Orders : Kill(1, o)

SpecLock == Init /\ [][NextLock]_vars

\* One process that writes its anonymous pages and then grows its stack, under
\* memory pressure.
NextLeak ==
  \/ \E a \in {PGSIZE, 2 * PGSIZE} : AllocPage(1, a, TRUE)
  \/ \E a \in {PGSIZE, 2 * PGSIZE} : PageFault(1, a, FALSE)
  \/ \E a \in {PGSIZE, 2 * PGSIZE} : UserWrite(1, a)
  \/ \E a \in VPages : UserRead(1, a)
  \/ \E w \in BOOLEAN : Fault(1, StackPage + 8, StackPage, w, TRUE)

SpecLeak == Init /\ [][NextLeak]_vars

\* One process mapping, touching and unmapping a file next to an anonymous page.
MapLens == {PGSIZE, 2 * PGSIZE}
UnmapAddrs == LowPages \cup {2 * PGSIZE + 8}

NextUnmap ==
  \/ \E l \in MapLens : Mmap(1, 2 * PGSIZE, l, TRUE, 1, 0)
  \/ \E a \in UnmapAddrs : Munmap(1, a)
  \/ AllocPage(1, PGSIZE, TRUE)
  \/ \E a \in LowPages : PageFault(1, a, FALSE)
  \/ UserWrite(1, 2 * PGSIZE)

SpecUnmap == Init /\ [][NextUnmap]_vars

\* A file mapping inherited across fork, under memory pressure.
NextShare ==
  \/ Mmap(1, PGSIZE, PGSIZE, TRUE, 1, 0)
  \/ \E p \in Procs : AllocPage(p, 2 * PGSIZE, TRUE)
  \/ \E p \in Procs, a \in {PGSIZE, 2 * PGSIZE} : PageFault(p, a, FALSE)
  \/ \E p \in Procs : UserWrite(p, PGSIZE)
  \/ \E o \in Orders : Fork(1, 2, o)

SpecShare == Init /\ [][NextShare]_vars

\* A mapping of half a page of file 1 between two anonymous pages that the
\* process writes, under memory pressure.
NextTail ==
  \/ Mmap(1, 2 * PGSIZE, PGSIZE \div 2, TRUE, 1, 0)
  \/ \E a \in {PGSIZE, 3 * PGSIZE} : AllocPage(1, a, TRUE)
  \/ \E a \in LowPages : PageFault(1, a, FALSE)
  \/ \E a \in LowPages : UserWrite(1, a)
  \/ \E a \in LowPages : UserRead(1, a)

SpecTail == Init /\ [][NextTail]_vars

\* An anonymous page next to a file mapping, both inherited across fork, under
\* memory pressure.
NextSwap ==
  \/ \E p \in Procs : AllocPage(p, PGSIZE, TRUE)
  \/ Mmap(1, 2 * PGSIZE, PGSIZE, TRUE, 1, 0)
  \/ \E p \in Procs, a \in {PGSIZE, 2 * PGSIZE} : PageFault(p, a, FALSE)
  \/ \E p \in Procs : UserWrite(p, PGSIZE)
  \/ \E o \in Orders : Fork(1, 2, o)

SpecSwap == Init /\ [][NextSwap]_vars

\* The same entry points on a machine with one page less in the user pool: a page of the
\* parent is swapped out when it forks.
SpecSmall == Boot(NFrames - 1) /\ [][NextSwap]_vars

\* The arguments of mmap: aligned and misaligned addresses and offsets, offsets
\* inside and beyond the file, a file as long as the mapping and a shorter one.
MapArgAddrs == {PGSIZE, PGSIZE + 1}
MapArgLens == {PGSIZE, 10000}
MapArgFiles == {<<1, 0>>, <<1, 1>>, <<1, 3 * PGSIZE>>, <<2, 0>>}

NextMap ==
  \/ \E a \in MapArgAddrs, l \in MapArgLens, fo \in MapArgFiles :
       Mmap(1, a, l, TRUE, fo[1], fo[2])
  \/ AllocPage(1, 2 * PGSIZE, TRUE)
  \/ \E a \in LowPages : PageFault(1, a, FALSE)

SpecMap == Init /\ [][NextMap]_vars

\* Page faults of one process: stack pointers at the top of the stack, just
\* above and just below the page under USER_STACK and at a wild low address;
\* accesses to null, to low pages, to the stack page and to a kernel address.
FaultRsps == {USER_STACK, StackPage + 8, StackPage - 16, 2 * PGSIZE + 8}
FaultAddrs == {0, PGSIZE, PGSIZE + 4, 2 * PGSIZE, StackPage, StackPage + 100,
               KERN_BASE + 8}

NextFault ==
  \/ \E w \in BOOLEAN : AllocPage(1, PGSIZE, w)
  \/ Mmap(1, StackPage, PGSIZE, FALSE, 1, 0)
  \/ \E rsp \in FaultRsps, a \in FaultAddrs, w \in BOOLEAN, np \in BOOLEAN :
       Fault(1, rsp, a, w, np)
  \/ UserWrite(1, PGSIZE)

SpecFault == Init /\ [][NextFault]_vars

\* Registration, mapping, faults, fork and unmapping on two pages.
AllocAddrs == {PGSIZE, PGSIZE + 4, 2 * PGSIZE}

NextSpt ==
  \/ \E p \in Procs, a \in AllocAddrs : VmAlloc(p, a, TRUE)
  \/ Mmap(1, 2 * PGSIZE, PGSIZE, TRUE, 1, 0)
  \/ \E p \in Procs, a \in {PGSIZE, 2 * PGSIZE} : PageFault(p, a, FALSE)
  \/ \E o \in Orders : Fork(1, 2, o)
  \/ Munmap(1, 2 * PGSIZE)

SpecSpt == Init /\ [][NextSpt]_vars

\* System calls of one process validating buffers that are null, mapped
\* read-only or writable, unmapped, on the stack, and across the kernel base.
ValRsps == {USER_STACK, StackPage + 8, StackPage - 16}
ValAddrs == {0, PGSIZE, PGSIZE + 4000, 3 * PGSIZE, StackPage + 100,
             KERN_BASE - 8, KERN_BASE + 8}
ValSizes == {0, 8, PGSIZE + 1}

NextValidate ==
  \/ \E w \in BOOLEAN : AllocPage(1, PGSIZE, w)
  \/ AllocPage(1, 2 * PGSIZE, TRUE)
  \/ \E rsp \in ValRsps, a \in ValAddrs, n \in ValSizes, w \in BOOLEAN :
       Validate(1, rsp, a, n, w)
  \/ \E a \in {PGSIZE, 2 * PGSIZE} : PageFault(1, a, FALSE)
  \/ UserWrite(1, 2 * PGSIZE)

SpecValidate == Init /\ [][NextValidate]_vars

\* Stack growth and buffer validation of a parent and its forked child when
\* the frames are taken by pages of the other process.
NextGrow ==
  \/ \E a \in {PGSIZE, 2 * PGSIZE} : AllocPage(1, a, TRUE)
  \/ \E o \in Orders : Fork(1, 2, o)
  \/ \E p \in Procs, a \in {PGSIZE, 2 * PGSIZE} : PageFault(p, a, FALSE)
  \/ \E p \in Procs, w \in BOOLEAN : Fault(p, StackPage + 8, StackPage, w, TRUE)
  \/ \E p \in Procs, n \in {0, 8}, w \in BOOLEAN :
       Validate(p, StackPage + 8, StackPage + 100, n, w)

SpecGrow == Init /\ [][NextGrow]_vars

\* One process with lazily loaded anonymous pages and a file mapping, under
\* memory pressure, until it exits.
NextKill ==
  \/ \E a \in {PGSIZE, 2 * PGSIZE} : AllocPage(1, a, TRUE)
  \/ Mmap(1, 3 * PGSIZE, PGSIZE, TRUE, 1, 0)
  \/ \E a \in LowPages : PageFault(1, a, FALSE)
  \/ \E a \in LowPages : UserWrite(1, a)
  \/ \E o \in Orders : Kill(1, o)

SpecKill == Init /\ [][NextKill]_vars

\* One process with four lazily loaded pages on a pool of three frames: every
\* fault after the third evicts.
NextClock ==
  \/ \E a \in VPages : AllocPage(1, a, TRUE)
  \/ \E a \in VPages : SweepFault(1, a)
  \/ \E a \in VPages : UserRead(1, a)

SpecClock == InitLarge /\ [][NextClock]_vars

\* ------------------------------------------------ properties
Present(p, va) == pml4[p][va].present

\* The descriptor of p at va is anonymous, was written by its process, and is
\* mapped by the hardware.
AnonWritten(p, va) ==
  /\ spt[p][va] # NoPage
  /\ pages[spt[p][va]].type = "anon"
  /\ pages[spt[p][va]].wr # 0
  /\ Present(p, va)

\* C1: an anonymous page that was written, evicted and claimed again reads the
\* pattern that was written, whichever process triggered the eviction.
C1_AnonRoundTrip ==
  \A p \in Procs, va \in VPages :
    (~kfault /\ AnonWritten(p, va) /\ pages[spt[p][va]].trips = 1)
      => mem[pml4[p][va].kva].hd = pages[spt[p][va]].wr

Registered(id) == pages[id].utype # "none"

Converted(id) == pages[id].type \in {"anon", "file"}

\* C2: a descriptor registered with vm_alloc_page_with_initializer is converted
\* from uninit exactly once, its deferred initializer runs exactly once, and it
\* is never uninit again: later claims go through the converted variant.
C2_ExactlyOnce ==
  /\ [](\A id \in PageIds : Registered(id) =>
          /\ pages[id].convs <= 1 /\ pages[id].inits <= 1
          /\ (pages[id].type = "uninit" => pages[id].convs = 0 /\ pages[id].inits = 0)
          /\ (Converted(id) => pages[id].convs = 1)
          /\ (Converted(id) /\ ~kfault /\ pages[id].init # "null" => pages[id].inits = 1))
  /\ [][\A id \in PageIds : (Registered(id) /\ Converted(id)) =>
          /\ pages'[id].type = pages[id].type
          /\ pages'[id].convs = pages[id].convs]_vars

\* C2 witness: a converted anonymous page that was evicted and claimed again.
C2_Witness ==
  \E id \in PageIds :
    /\ ~kfault /\ Registered(id) /\ pages[id].type = "anon"
    /\ pages[id].trips = 1 /\ pages[id].convs = 1 /\ pages[id].inits = 1

C4_FileRoundTrip ==
  [][\A p \in Procs, va \in VPages :
       LET id == spt[p][va]
           pte == pml4[p][va]
       IN (/\ ~kfault' /\ id # NoPage /\ pages[id].type = "file" /\ pages[id].writable
           /\ pte.present /\ pte.dirty /\ pte.kva = pages[id].frame
           /\ SeqHas(last'.ev, pte.kva)
           /\ HandleOk(Cur, pages[id].file.file))
          => fdata'[handles[pages[id].file.file].file][pages[id].file.ofs \div PGSIZE]
               = mem[pte.kva].hd]_vars

\* Pages touched by the byte range [addr, addr + length).
RangePages(addr, length) ==
  {va \in VPages : pg_round_down(addr) <= va /\ va < addr + length}

\* C5: do_mmap on a range in which some page has an SPT entry returns NULL and
\* leaves the SPT, the descriptors and the hardware mappings as they were.
C5_OverlapRejected ==
  [][(/\ last'.op = "mmap"
      /\ \E va \in RangePages(last'.addr, last'.len) : spt[last'.p][va] # NoPage)
     => (last'.ret = 0 /\ spt' = spt /\ pages' = pages /\ pml4' = pml4)]_vars

\* C6: do_mmap returns NULL and registers nothing when the address or the
\* offset is not page-aligned or the offset exceeds the file's length.
C6_BadArgsRejected ==
  [][(/\ last'.op = "mmap"
      /\ \/ pg_ofs(last'.addr) # 0
         \/ pg_ofs(last'.off) # 0
         \/ last'.off > FileLen(last'.file))
     => (last'.ret = 0 /\ spt' = spt /\ pages' = pages)]_vars

\* Bytes of the file left for page i of a mapping of len bytes at offset off.
RemainingFileBytes(file, off, len, i) ==
  Min(PGSIZE, Max(0, Min(len, FileLen(file) - off) - i * PGSIZE))

\* C7: a successful do_mmap of length L at an aligned address and offset
\* registers exactly ceil(L / PGSIZE) lazy file-backed descriptors at
\* consecutive pages; page i carries offset + i * PGSIZE, reads the remaining
\* file bytes capped at one page and zeroes the rest of the page.
C7_MappingLayout ==
  [][(/\ last'.op = "mmap" /\ last'.ret # 0
      /\ pg_ofs(last'.addr) = 0 /\ pg_ofs(last'.off) = 0)
     => /\ \A i \in 0..(PageCount(last'.len) - 1) :
             LET va == last'.addr + i * PGSIZE IN
             /\ va \in VPages
             /\ spt[last'.p][va] = NoPage
             /\ spt'[last'.p][va] # NoPage
             /\ LET P == pages'[spt'[last'.p][va]] IN
                /\ P.type = "uninit" /\ P.utype = "file" /\ P.init = "lazy_load"
                /\ P.aux.ofs = last'.off + i * PGSIZE
                /\ P.aux.read_bytes = RemainingFileBytes(last'.file, last'.off, last'.len, i)
                /\ P.aux.zero_bytes = PGSIZE - P.aux.read_bytes
        /\ \A va \in VPages :
             (va < last'.addr \/ va >= last'.addr + PageCount(last'.len) * PGSIZE)
               => spt'[last'.p][va] = spt[last'.p][va]]_vars

\* The call recorded in last' unmaps the first page of a mapping made by do_mmap.
UnmapsMapping ==
  /\ last'.op = "munmap"
  /\ last'.had # NoPage
  /\ pages[last'.had].mcnt > 0
  /\ pages[last'.had].maddr = last'.addr

\* C8: do_munmap at the start address of a mapping removes every page of the
\* mapping from the SPT and closes each page's file handle, whether the page
\* is resident, still uninit or evicted.
C8_CompleteUnmap ==
  [][UnmapsMapping =>
       \A i \in 0..(pages[last'.had].mcnt - 1) :
         LET va == last'.addr + i * PGSIZE IN
         (/\ va \in VPages /\ spt[last'.p][va] # NoPage
          /\ pages[spt[last'.p][va]].maddr = last'.addr)
           => /\ spt'[last'.p][va] = NoPage
              /\ ~handles'[pages[spt[last'.p][va]].aux.file].open]_vars

\* C9: do_munmap at an address that is not the first page of a mapping (a page
\* in the middle, a misaligned address, a descriptor that is not file-backed)
\* removes and alters nothing.
C9_NoPartialUnmap ==
  [][(last'.op = "munmap" /\ ~UnmapsMapping)
     => (spt' = spt /\ pml4' = pml4 /\ handles' = handles /\ pages' = pages)]_vars

\* C10: do_munmap on an address without an SPT entry changes nothing, however
\* often it is repeated.
C10_UnmapAbsentNoop ==
  [][(last'.op = "munmap" /\ last'.had = NoPage)
     => /\ spt' = spt /\ pages' = pages /\ frames' = frames
        /\ frame_table' = frame_table /\ pml4' = pml4 /\ mem' = mem
        /\ fdata' = fdata /\ handles' = handles /\ slots' = slots
        /\ swap_slot_list' = swap_slot_list /\ disk' = disk
        /\ pstate' = pstate /\ kfault' = kfault]_vars

\* C10 witness: do_munmap ran on an address without an entry while the process
\* held a file mapping elsewhere.
C10_Witness ==
  /\ last.op = "munmap" /\ last.had = NoPage /\ last.addr \in VPages
  /\ ~kfault
  /\ \E va \in VPages : spt[1][va] # NoPage /\ pages[spt[1][va]].type = "file"

\* The call recorded in last' is a page fault.
Faulted == last'.op = "fault"

FaultPage == pg_round_down(last'.addr)

\* C11: a not-present fault at exactly rsp - 8 on an address without an SPT
\* entry registers a writable anonymous descriptor at the page of the address,
\* claims it (frame bound, hardware mapping set) and returns true.
C11_StackGrowth ==
  [][(Faulted /\ last'.np /\ last'.addr = last'.rsp - 8 /\ last'.had = NoPage)
     => /\ last'.ret = 1
        /\ ~kfault'
        /\ spt'[last'.p][FaultPage] # NoPage
        /\ LET P == pages'[spt'[last'.p][FaultPage]] IN
           /\ P.type = "anon" /\ P.writable /\ P.va = FaultPage
           /\ P.frame # 0
           /\ frames'[P.frame].page = spt'[last'.p][FaultPage]
           /\ pml4'[last'.p][FaultPage].present
           /\ pml4'[last'.p][FaultPage].kva = P.frame
           /\ pml4'[last'.p][FaultPage].writable]_vars

\* C12: no fault, whatever the stack pointer, makes the handler create a
\* descriptor at a page below USER_STACK - 1 MB or at or above USER_STACK.
C12_StackBound ==
  [][Faulted =>
       \A va \in VPages :
         (spt[last'.p][va] = NoPage /\ spt'[last'.p][va] # NoPage)
           => (USER_STACK - STACK_LIMIT <= va /\ va < USER_STACK)]_vars

\* C13: a fault with not_present false, for a write or for a read, ends the
\* faulting process without claiming a page or acquiring a frame.
C13_ProtectionFatal ==
  [][(Faulted /\ ~last'.np)
     => /\ pstate'[last'.p] = "exited" /\ ~kfault'
        /\ frames' = frames /\ frame_table' = frame_table
        /\ pages' = pages /\ pml4' = pml4]_vars

\* The stack-growth region: the address just below the stack pointer, or an
\* address within 1 MB below USER_STACK.
InGrowthRegion(rsp, addr) ==
  \/ addr = rsp - 8
  \/ (USER_STACK - STACK_LIMIT <= addr /\ addr < USER_STACK)

\* C14: a not-present fault at an address without an SPT entry and outside the
\* stack-growth region (null and kernel addresses included) ends the process
\* with exit (-1), creates no descriptor and acquires no frame.
C14_UnmappedFatal ==
  [][(Faulted /\ last'.np /\ last'.had = NoPage
      /\ ~InGrowthRegion(last'.rsp, last'.addr))
     => /\ pstate'[last'.p] = "exited" /\ last'.ret = -2 /\ ~kfault'
        /\ spt' = spt /\ pages' = pages
        /\ frames' = frames /\ frame_table' = frame_table]_vars

\* C14 witness: the process ended on a not-present fault at null or at a kernel
\* address, with a page of its own registered.
C14_Witness ==
  /\ last.op = "fault" /\ last.np /\ last.had = NoPage
  /\ (last.addr = 0 \/ last.addr >= KERN_BASE)
  /\ pstate[1] = "exited"
  /\ spt[1][PGSIZE] # NoPage

\* C15: a write fault on a descriptor that is not writable, wherever its
\* address lies, ends the process and leaves the descriptor unclaimed.
C15_WriteGate ==
  [][(Faulted /\ last'.write /\ last'.had # NoPage /\ ~pages[last'.had].writable)
     => /\ pstate'[last'.p] = "exited"
        /\ pages' = pages /\ frames' = frames /\ pml4' = pml4]_vars

\* C16: vm_alloc_page_with_initializer on an address whose page has an SPT
\* entry returns false and leaves the SPT and the descriptors as they were; an
\* SPT holds one descriptor per page, keyed by the descriptor's own address,
\* and no descriptor is held under two keys.
C16_KeyUnique ==
  /\ [](\A p \in Procs, va \in VPages :
          spt[p][va] # NoPage =>
            /\ pages[spt[p][va]].type # "none"
            /\ pages[spt[p][va]].va = va
            /\ \A q \in Procs, vb \in VPages :
                 spt[q][vb] = spt[p][va] => (q = p /\ vb = va))
  /\ [][(last'.op = "alloc" /\ last'.had # NoPage)
        => (last'.ret = 0 /\ spt' = spt /\ pages' = pages)]_vars

\* C16 witness: a registration was refused at an address inside a page that
\* holds a descriptor, in an address space made by fork.
C16_Witness ==
  /\ last.op = "alloc" /\ last.had # NoPage /\ last.ret = 0
  /\ last.p = 2 /\ pg_ofs(last.addr) # 0

\* C17: for every registered descriptor, spt_find_page gives that descriptor
\* at every address inside its page.
C17_LookupRounds ==
  \A p \in Procs, va \in VPages :
    spt[p][va] # NoPage =>
      \A a \in {va, va + 1, va + PGSIZE - 1} :
        spt_find_page(Cur, p, a) = spt[p][va]

\* The file-backed occupants of frame k: the pages of the address spaces whose
\* file-backed descriptor is bound to k and mapped to it by the hardware.
FileOccupants(k) ==
  {o \in Procs \X VPages :
     /\ spt[o[1]][o[2]] # NoPage
     /\ pages[spt[o[1]][o[2]]].type = "file"
     /\ pages[spt[o[1]][o[2]]].frame = k
     /\ pml4[o[1]][o[2]].present /\ pml4[o[1]][o[2]].kva = k}

\* C18: when a frame with two file-backed occupants is evicted, every occupant
\* whose dirty bit is set has the content written to the file at its own
\* offset and the hardware mappings of both occupants are cleared; when a
\* file-backed descriptor is claimed again, every occupant evicted with it gets
\* its hardware mapping back to the new frame.
C18_SharedEviction ==
  [][/\ \A k \in Kvas :
         (SeqHas(last'.ev, k) /\ Cardinality(FileOccupants(k)) = 2 /\ ~kfault')
           => \A o \in FileOccupants(k) :
                LET id == spt[o[1]][o[2]] IN
                /\ ~(/\ spt'[o[1]][o[2]] = id
                     /\ pml4'[o[1]][o[2]].present /\ pml4'[o[1]][o[2]].kva = k)
                /\ (pml4[o[1]][o[2]].dirty /\ HandleOk(Cur, pages[id].file.file))
                     => fdata'[handles[pages[id].file.file].file]
                              [pages[id].file.ofs \div PGSIZE] = mem[k].hd
     /\ \A id \in PageIds :
         (/\ pages[id].type = "file" /\ pages[id].file_list.st = "live"
          /\ pages'[id].file_list.st = "freed" /\ ~kfault')
           => \A j \in PageIds :
                SeqHas(pages[id].file_list.elems, j)
                  => /\ pages'[j].frame = pages'[id].frame
                     /\ \E q \in Procs :
                          /\ spt'[q][pages[j].va] = j
                          /\ pml4'[q][pages[j].va].present
                          /\ pml4'[q][pages[j].va].kva = pages'[id].frame]_vars

\* Every entry of the parent's SPT has a descriptor at the same address in the
\* child's SPT after the step (the parent is process 1, the child process 2).
AllDuplicated ==
  \A va \in VPages : spt[1][va] # NoPage => spt'[2][va] # NoPage

OverlapPages(uaddr, size) ==
  {pg_round_down(uaddr) + i * PGSIZE :
     i \in 0..((pg_round_down(uaddr + size - 1) - pg_round_down(uaddr)) \div PGSIZE)}

Descs(p) == {spt[p][va] : va \in VPages} \ {NoPage}

\* C21: supplemental_page_table_kill destroys every descriptor of the table and
\* leaves the table empty; afterwards no frame's page_list and no swap slot's
\* page_list holds a descriptor that was in the table.
C21_Teardown ==
  [][(last'.op = "kill" /\ ~kfault')
       => /\ \A va \in VPages : spt'[last'.p][va] = NoPage
          /\ \A id \in Descs(last'.p) :
               /\ pages'[id].type = "none"
               /\ \A k \in Kvas : ~SeqHas(frames'[k].page_list, id)
               /\ \A s \in SlotIds : ~SeqHas(slots'[s], id)]_vars

\* C22: when an entry point has evicted frame k and returned, an address that
\* was mapped to k before the eviction, in any address space, is mapped to k
\* afterwards only when its descriptor is on the frame's page_list again: no
\* descriptor of the evicted content keeps its hardware mapping to k.
C22_NoStaleOccupants ==
  [][\A k \in Kvas :
       (SeqHas(last'.ev, k) /\ ~kfault')
         => \A p \in Procs, va \in VPages :
              (/\ pml4[p][va].present /\ pml4[p][va].kva = k
               /\ spt[p][va] # NoPage /\ spt'[p][va] = spt[p][va]
               /\ pml4'[p][va].present /\ pml4'[p][va].kva = k)
                => SeqHas(frames'[k].page_list, spt'[p][va])]_vars

\* The access bit of the representative occupant of frame k.
Accessed(k) ==
  /\ frames[k].page # NoPage
  /\ pages[frames[k].page].pml4 # 0
  /\ pml4[pages[frames[k].page].pml4][pages[frames[k].page].va].accessed

\* The same bit after the step, for the occupant the frame had before it.
AccessedAfter(k) ==
  /\ frames[k].page # NoPage
  /\ pages[frames[k].page].pml4 # 0
  /\ pml4'[pages[frames[k].page].pml4][pages[frames[k].page].va].accessed

\* The frame table walked as a ring from position start.
RingFrom(start) ==
  [i \in 1..Len(frame_table) |->
     frame_table[((start + i - 2) % Len(frame_table)) + 1]]

\* Where a sweep that resumes after the previous one begins: behind the
\* previous victim when the entry point before this one evicted (the victim
\* has moved to the back of the table since), else at the front.
SweepStart ==
  IF last.op = "sweep" /\ last.pos > 0 /\ last.pos < Len(frame_table)
  THEN last.pos ELSE 1

\* C23: the victim of a sweep is the first frame, in ring order from the place
\* the previous sweep stopped, whose access bit is unset, or the first frame
\* of that order when every bit was set; it is a frame of the table, and every
\* frame passed over had its bit set and has it cleared afterwards.
C23_ClockSweep ==
  [][(last'.op = "sweep" /\ last'.pos > 0 /\ ~kfault')
       => LET ring == RingFrom(SweepStart)
              unset == {i \in 1..Len(frame_table) : ~Accessed(ring[i])}
              vi == IF unset = {} THEN 1
                    ELSE CHOOSE i \in unset : \A j \in unset : i <= j
          IN /\ SeqHas(frame_table, Head(last'.ev))
             /\ Head(last'.ev) = ring[vi]
             /\ \A i \in 1..Len(frame_table) :
                  (i < vi \/ (unset = {} /\ i # vi))
                    => Accessed(ring[i]) /\ ~AccessedAfter(ring[i])]_vars

\* Descriptors whose frame reference is k and that are resident: present in a
\* table and mapped to k.
ResidentOn(k) ==
  {id \in PageIds :
     /\ pages[id].type # "none" /\ pages[id].frame = k
     /\ \E p \in Procs : /\ spt[p][pages[id].va] = id
                          /\ pml4[p][pages[id].va].present
                          /\ pml4[p][pages[id].va].kva = k}

\* C24: between entry points, for every frame of the frame table, cnt_page is
\* the length of page_list and the number of resident descriptors that refer
\* to the frame, and every descriptor on page_list refers back to the frame.
C24_FrameAccounting ==
  ~kfault =>
    \A k \in Kvas :
      SeqHas(frame_table, k)
        => /\ frames[k].cnt_page = Len(frames[k].page_list)
           /\ frames[k].cnt_page = Cardinality(ResidentOn(k))
           /\ \A id \in PageIds :
                SeqHas(frames[k].page_list, id) => pages[id].frame = k

\* C25: when do_munmap or supplemental_page_table_kill brings a frame's
\* cnt_page to zero, the frame leaves the frame table in the same step; and in
\* every state each frame of the table has a representative occupant that is
\* a descriptor of some supplemental page table.
C25_ZeroReclaimed ==
  /\ [][(last'.op \in {"munmap", "kill"} /\ ~kfault')
          => \A k \in Kvas :
               (frames[k].cnt_page > 0 /\ frames'[k].cnt_page = 0)
                 => ~SeqHas(frame_table', k)]_vars
  /\ [](~kfault
          => \A k \in Kvas :
               SeqHas(frame_table, k)
                 => /\ frames[k].page # NoPage
                    /\ \E p \in Procs, va \in VPages : spt[p][va] = frames[k].page)

\* Two file-backed descriptors of the same bytes of the same file.
SameFilePage(i, j) ==
  /\ pages[i].type = "file" /\ pages[j].type = "file"
  /\ pages[i].file.ofs = pages[j].file.ofs
  /\ HandleOk(Cur, pages[i].file.file) /\ HandleOk(Cur, pages[j].file.file)
  /\ handles[pages[i].file.file].file = handles[pages[j].file.file].file

\* C26: in every state a descriptor of a table has a frame reference only
\* while it is resident on that frame (none while unclaimed or swapped out),
\* and the frame it refers to has no unrelated descriptor as its occupant.
C26_FrameReference ==
  ~kfault =>
    \A p \in Procs, va \in VPages :
      (spt[p][va] # NoPage /\ pages[spt[p][va]].frame # 0)
        => /\ pml4[p][va].present
           /\ pml4[p][va].kva = pages[spt[p][va]].frame
           /\ LET j == frames[pages[spt[p][va]].frame].page
              IN (j # NoPage /\ j # spt[p][va]) => SameFilePage(spt[p][va], j)

\* Number of times x occurs in the sequence s.
RECURSIVE CountIn(_, _)
CountIn(s, x) ==
  IF s = <<>> THEN 0
  ELSE (IF Head(s) = x THEN 1 ELSE 0) + CountIn(Tail(s), x)

\* Descriptor id is an anonymous page that is resident in its address space.
ResidentAnon(id) ==
  /\ pages[id].type = "anon"
  /\ \E p \in Procs : spt[p][pages[id].va] = id /\ pml4[p][pages[id].va].present

\* A slot is free with no occupant, or in use with the occupants of one
\* evicted frame, which are swapped out and record the slot.
SlotLifecycle ==
  \A s \in SlotIds :
    /\ CountIn(swap_slot_list, s) <= 1
    /\ IF SeqHas(swap_slot_list, s)
       THEN slots[s] = <<>>
       ELSE /\ slots[s] # <<>>
            /\ \A id \in PageIds :
                 SeqHas(slots[s], id)
                   => /\ pages[id].type = "anon" /\ pages[id].slot = s
                      /\ ~ResidentAnon(id)
                      /\ pages[id].frame = pages[Head(slots[s])].frame

\* No resident anonymous descriptor records a swap slot.
NoSlotWhileResident ==
  \A id \in PageIds : ResidentAnon(id) => pages[id].slot = 0

\* C27: in every state each swap slot is free with no occupant or taken by the
\* occupants of exactly one evicted frame, no slot is in the free list twice,
\* and no resident descriptor records a slot as held.
C27_SlotLifecycle ==
  ~kfault => (SlotLifecycle /\ NoSlotWhileResident)

\* C28: when supplemental_page_table_kill destroys anonymous descriptors that
\* are swapped out, each leaves its slot's page_list, and a slot whose
\* occupants were all destroyed is back in the free list afterwards.
C28_SwappedDestroy ==
  [][(last'.op = "kill" /\ ~kfault')
       => \A s \in SlotIds :
            /\ \A id \in Descs(last'.p) :
                 SeqHas(slots[s], id) => ~SeqHas(slots'[s], id)
            /\ (/\ slots[s] # <<>>
                /\ \A id \in PageIds : SeqHas(slots[s], id) => id \in Descs(last'.p))
                 => SeqHas(swap_slot_list', s)]_vars

\* C29: when fork returns without having evicted, every resident file-backed
\* entry of the parent has a file-backed descriptor at the same address in the
\* child, with a handle of its own on the same file, bound to the parent's
\* frame, on that frame's page_list, counted in cnt_page, and mapped in the
\* child to the physical page the parent maps.
C29_ForkFileShare ==
  [][(last'.op = "fork" /\ ~kfault' /\ last'.ev = <<>>)
       => \A va \in VPages :
            (/\ spt[1][va] # NoPage /\ pages[spt[1][va]].type = "file"
             /\ pml4[1][va].present)
              => LET src == spt[1][va]
                     dst == spt'[2][va]
                     k == pages[src].frame
                 IN /\ dst # NoPage /\ dst # src
                    /\ pages'[dst].type = "file"
                    /\ pages'[dst].file.file # pages'[src].file.file
                    /\ pages'[dst].file.file \in HandleIds
                    /\ handles'[pages'[dst].file.file].open
                    /\ handles'[pages'[dst].file.file].file
                         = handles'[pages'[src].file.file].file
                    /\ pages'[dst].frame = k /\ pages'[src].frame = k
                    /\ frames'[k].cnt_page = frames[k].cnt_page + 1
                    /\ pml4'[2][va].present /\ pml4'[2][va].kva = pml4'[1][va].kva
                    /\ SeqHas(frames'[k].page_list, dst)]_vars

\* C30: when a fault brings a file-backed descriptor back in through
\* file_backed_swap_in, the first read_bytes bytes of its frame are the file's
\* bytes at the descriptor's offset and, when zero_bytes > 0, the rest of the
\* frame is zero.
C30_FileSwapInContent ==
  [][~kfault'
       => \A p \in Procs, va \in VPages :
            (/\ spt[p][va] # NoPage /\ pages[spt[p][va]].type = "file"
             /\ ~pml4[p][va].present
             /\ spt'[p][va] = spt[p][va] /\ pml4'[p][va].present)
              => LET info == pages[spt[p][va]].file
                     k == pml4'[p][va].kva
                 IN /\ mem'[k].hd = fdata'[handles[info.file].file][info.ofs \div PGSIZE]
                    /\ info.zero_bytes > 0 => mem'[k].tl = 0]_vars

\* The stretch of vm_get_frame in which a thread holds a frame that is not yet
\* bound to its page.
Holding == {"victim", "slot", "stored", "got"}

\* C31: under every interleaving of faulting threads, two threads never hold
\* the same frame at once, and one frame is never mapped for two descriptors
\* (no page of the specification is shared).
C31_FrameExclusion ==
  /\ \A t1, t2 \in Procs :
       (t1 # t2 /\ thr[t1].pc \in Holding /\ thr[t2].pc \in Holding)
         => thr[t1].frame # thr[t2].frame
  /\ \A p1, p2 \in Procs, a1, a2 \in VPages :
       (/\ pml4[p1][a1].present /\ pml4[p2][a2].present
        /\ pml4[p1][a1].kva = pml4[p2][a2].kva)
         => (p1 = p2 /\ a1 = a2)

\* C32: the free-slot list changes only while a thread holds swap_lock.
C32_SwapLockHeld ==
  [][swap_slot_list' # swap_slot_list => swap_lock # 0]_vars

\* The calls into the file system.
FileCalls == {"file_length", "file_reopen", "file_close", "file_write_at", "file_read_at"}

\* C33: no entry point makes a call into the file system while filesys_lock
\* is not held.
C33_FileCallsLocked == last.lockerr \cap FileCalls = {}

\* C34: no operation acquires filesys_lock while the calling thread holds it
\* or releases it without holding it, and every operation that returns leaves
\* the lock with the holder it had on entry.
C34_LockDiscipline ==
  [][last'.op \notin {"lock", "unlock"}
       => /\ "lock_acquire" \notin last'.lockerr
          /\ "lock_release" \notin last'.lockerr
          /\ ~kfault' => filesys_lock' = filesys_lock]_vars

\* A fork whose claim of the child's anonymous page has evicted the parent's
\* file page: file_backed_swap_out ran inside supplemental_page_table_copy.
C34_Witness ==
  /\ last.op = "fork" /\ ~kfault /\ last.ev # <<>>
  /\ pml4[1][PGSIZE].present /\ pml4[2][PGSIZE].present
  /\ spt[1][2 * PGSIZE] # NoPage
  /\ pages[spt[1][2 * PGSIZE]].type = "file"
  /\ pages[spt[1][2 * PGSIZE]].file_list.st = "live"
  /\ ~pml4[1][2 * PGSIZE].present

\* C35: the page that a stack-growth fault has just created and claimed reads
\* as zeroes, whether its frame is fresh or was taken from a victim.
C35_GrownPageZero ==
  [][(/\ last'.op = "fault" /\ ~kfault' /\ last'.ret = 1
      /\ last'.had = NoPage
      /\ pml4'[last'.p][pg_round_down(last'.addr)].present)
       => mem'[pml4'[last'.p][pg_round_down(last'.addr)].kva] = Zeroed]_vars

\* The bytes the page of p at va holds: those of its frame while it is
\* resident, those of its swap slot while it is swapped out.
Holds(p, va) ==
  IF pml4[p][va].present THEN mem[pml4[p][va].kva]
  ELSE IF pages[spt[p][va]].slot \in SlotIds THEN disk[pages[spt[p][va]].slot]
  ELSE Zeroed

HoldsAfter(p, va) ==
  IF pml4'[p][va].present THEN mem'[pml4'[p][va].kva]
  ELSE IF pages'[spt'[p][va]].slot \in SlotIds THEN disk'[pages'[spt'[p][va]].slot]
  ELSE Zeroed

\* C36: after a fork that returned, for every anonymous entry of the parent
\* the child's page at the same address holds the bytes the parent's page
\* held when the fork began.
C36_ForkAnonContent ==
  [][(last'.op = "fork" /\ ~kfault' /\ last'.ret = 1)
       => \A va \in VPages :
            (spt[1][va] # NoPage /\ pages[spt[1][va]].type = "anon")
              => /\ spt'[last'.p][va] # NoPage
                 /\ HoldsAfter(last'.p, va) = Holds(1, va)]_vars

====
